---- MODULE Spec2Model ----
(***************************************************************************)
(* Model of the airline flight-line animation (src/src/lib.rs).            *)
(*                                                                         *)
(* Numbers.  f32 fractions (percent and the three sub-phases) are held in  *)
(* fixed point with Unit steps per 1.0; every value the code derives from  *)
(* a percent of k/100 is a whole number of steps, so the comparisons in    *)
(* normalize_process fall exactly where the code's do.  f64 coordinates    *)
(* are held in 1/PosScale pixels; a product with a fraction is rounded     *)
(* down to that grid.  The frame counter is a usize of the wasm32 target   *)
(* (32 bits), held as two 16-bit limbs <<hi, lo>>.                         *)
(***************************************************************************)
EXTENDS Integers, Sequences, FiniteSets

\* ---------------------------------------------------------------- bounds

\* frame callbacks explored from one initial state
MaxFrames == 120
\* draw_air_line is exported: percents from -PctBelow/100 to PctAbove/100
PctBelow == 20
PctAbove == 130
\* a long-running session is picked up LateStart frames before the counter
\* reaches 2^32
LateStart == 110

\* ------------------------------------------------------- number formats

Unit == 4 * 100
PosScale == 10 * 10

\* a * t for a coordinate a and a fraction t
FMul(a, t) == (a * t) \div Unit
\* a / b for two fractions
FDiv(a, b) == (a * Unit) \div b
\* k as f32 / 100.0
Hundredths(k) == (k * Unit) \div 100

Position(x, y) == [x |-> x, y |-> y]
Px(n) == n * PosScale

\* ---------------------------------------------------------------- colour

HSL(hue, saturation, lightness) == <<hue, saturation, lightness>>

None == [kind |-> "none", hsl |-> <<>>]
Transparent == [kind |-> "transparent", hsl |-> <<>>]
RadialGradient == [kind |-> "radial", hsl |-> <<>>]
LinearGradient == [kind |-> "linear", hsl |-> <<>>]

\* format!("hsl({}, {}%, {}%)", self.0, self.1 * 100.0, self.2 * 100.0)
as_str(color) ==
    [kind |-> "hsl", hsl |-> <<color[1], FMul(100, color[2]), FMul(100, color[3])>>]

\* one call on the canvas context, the console or the scheduler
Op(name, args, style) == [op |-> name, args |-> args, style |-> style]

\* -------------------------------------------------------------- geometry

get_control_position(from, to, curveness) ==
    Position((from.x + to.x) \div 2 - FMul(from.y - to.y, curveness),
             (from.y + to.y) \div 2 - FMul(from.x - to.x, curveness))

get_curveness(from, to) ==
    IF from.y < to.y THEN Hundredths(40) ELSE 0 - Hundredths(40)

FullCircle == 360

draw_head_of_curve_path(from, color, radius) ==
    << Op("beginPath", <<>>, None),
       Op("fillStyle", <<>>, as_str(color)),
       Op("arc", <<from.x, from.y, radius, 0, FullCircle>>, None),
       Op("closePath", <<>>, None),
       Op("fill", <<>>, None) >>

\* the early return is taken only when 1.0 < percent
draw_part_of_curve_path(from, to, curveness, percent) ==
    LET cp == get_control_position(from, to, curveness)
        t == percent
        p0 == from
        p1 == cp
        p2 == to
        v01 == <<p1.x - p0.x, p1.y - p0.y>>
        v12 == <<p2.x - p1.x, p2.y - p1.y>>
        q0 == Position(p0.x + FMul(v01[1], t), p0.y + FMul(v01[2], t))
        q1 == Position(p1.x + FMul(v12[1], t), p1.y + FMul(v12[2], t))
        v == <<q1.x - q0.x, q1.y - q0.y>>
        b == Position(q0.x + FMul(v[1], t), q0.y + FMul(v[2], t))
    IN  IF Unit < percent
        THEN [q0 |-> cp, b |-> Position(to.x, to.y), path |-> "direct"]
        ELSE [q0 |-> q0, b |-> b, path |-> "interpolated"]

\* gradientOk: whether createRadialGradient returns a gradient (Ok) or throws
draw_hola(pos, color, radius, percent, gradientOk) ==
    LET r == FMul(radius, percent)
        create == Op("createRadialGradient", <<pos.x, pos.y, 0, pos.x, pos.y, r>>, None)
    IN  IF ~gradientOk
        THEN [ops |-> <<create>>, ok |-> FALSE]
        ELSE [ops |-> << create,
                         Op("addColorStop", <<Hundredths(0)>>, Transparent),
                         Op("addColorStop", <<Hundredths(95)>>, as_str(color)),
                         Op("addColorStop", <<Hundredths(100)>>, Transparent),
                         Op("fillStyle", <<>>, RadialGradient),
                         Op("fillRect", <<pos.x - r, pos.y - r, pos.x + r, pos.y + r>>, None) >>,
              ok |-> TRUE]

\* ---------------------------------------------------------------- phases

\* the upper bound is not applied
normalize_process_unclamped(number) ==
    IF 0 < number THEN number ELSE 0

normalize_process(number) ==
    IF 0 < number
    THEN IF Unit > number THEN number ELSE Unit
    ELSE 0

RADIUS == 20 * PosScale

move_percent == Hundredths(50)
length_of_curve == Hundredths(30)

\* the tail share is taken for the move share
percent_head_of_tail_share(percent) == normalize_process(FDiv(percent, length_of_curve))

percent_head_of(percent) == normalize_process(FDiv(percent, move_percent))

percent_curve_of(percent) ==
    FDiv(normalize_process(percent - length_of_curve), move_percent + length_of_curve)

\* the afterglow starts with the tail, not with the arrival
percent_hola_of_tail_share(percent) ==
    FDiv(normalize_process(percent - length_of_curve), Unit - move_percent)

percent_hola_of(percent) ==
    FDiv(normalize_process(percent - move_percent), Unit - move_percent)

\* the comparison is not strict
tail_drawn_at_zero(percent_head) == 0 <= percent_head

\* whether the tail is drawn: 0.0 < percent_head
tail_drawn(percent_head) == 0 < percent_head

draw_tail(from, q0, b, color, percent_curve) ==
    << Op("moveTo", <<from.x, from.y>>, None),
       Op("quadraticCurveTo", <<q0.x, q0.y, b.x, b.y>>, None),
       Op("createLinearGradient", <<from.x, from.y, b.x, b.y>>, None),
       Op("addColorStop", <<percent_curve>>, Transparent),
       Op("addColorStop", <<Hundredths(100)>>, as_str(color)),
       Op("lineWidth", <<3>>, None),
       Op("strokeStyle", <<>>, LinearGradient),
       Op("stroke", <<>>, None) >>

draw_air_line(from, to, color, curveness, percent, gradientOk) ==
    LET percent_head == percent_head_of(percent)
        percent_curve == percent_curve_of(percent)
        percent_hola == percent_hola_of(percent)
        part == draw_part_of_curve_path(from, to, curveness, percent_head)
        hola == draw_hola(part.b, color, RADIUS, percent_hola, gradientOk)
        log == <<Op("console.log", <<from.x, from.y, to.x, to.y>>, None)>>
        tail == IF tail_drawn(percent_head)
                THEN draw_tail(from, part.q0, part.b, color, percent_curve)
                ELSE <<>>
    IN  [from |-> from, to |-> to, color |-> color, curveness |-> curveness,
         percent |-> percent,
         percent_head |-> percent_head,
         percent_curve |-> percent_curve,
         percent_hola |-> percent_hola,
         part |-> part,
         ok |-> hola.ok,
         ops |-> IF hola.ok
                 THEN log \o hola.ops \o draw_head_of_curve_path(part.b, color, 2 * PosScale) \o tail
                 ELSE log \o hola.ops]

\* ------------------------------------------------------------ the driver

VARIABLES
    st,               \* start(): "new", "running", "aborted"; "trapped" after a panic in a frame
    dom,              \* the page: "ok", "no_canvas", "no_context"
    cities,           \* names present in CITIES (empty when the dataset fails to parse)
    overflow_checks,  \* build profile: TRUE panics on integer overflow, FALSE wraps
    i,                \* the frame counter captured by the closure
    pending,          \* callbacks registered with requestAnimationFrame and not yet run
    frames,           \* callbacks run so far
    calls,            \* the draw_air_line calls of the last callback, in order
    ops,              \* every canvas, console and scheduler call of the last callback
    hist,             \* hist[r]: percents drawn by the latest frame numbered r modulo 100
    prior             \* percents drawn 100 frames before the last frame (<<>> when none)

vars == <<st, dom, cities, overflow_checks, i, pending, frames, calls, ops, hist, prior>>

\* usize on wasm32: hi * Limb + lo
Limb == 2 ^ 16

u32_add(a, n) ==
    LET s == a[2] + n
        h == a[1] + (s \div Limb)
    IN  [value |-> <<h % Limb, s % Limb>>, overflow |-> h >= Limb]

u32_rem(a, m) == (((a[1] % m) * (Limb % m)) + (a[2] % m)) % m

\* the names start() looks up (the source spells them in Chinese)
CityNames == {"Beijing", "Guangdong", "Guangxi", "Jilin", "Xinjiang"}

\* offset(to_mercator(lng, lat)) of each province's centre, on a 10 pixel grid
CITIES ==
    [name \in CityNames |->
        CASE name = "Beijing"   -> Position(Px(660), Px(310))
          [] name = "Guangdong" -> Position(Px(610), Px(620))
          [] name = "Guangxi"   -> Position(Px(540), Px(620))
          [] name = "Jilin"     -> Position(Px(800), Px(230))
          [] name = "Xinjiang"  -> Position(Px(220), Px(230))]

color ==
    [j \in 0..5 |->
        CASE j = 0 -> HSL(255, Hundredths(100), Hundredths(100))
          [] j = 1 -> HSL(128, Hundredths(100), Hundredths(50))
          [] j = 2 -> HSL(255, Hundredths(100), Hundredths(50))
          [] j = 3 -> HSL(50, Hundredths(100), Hundredths(50))
          [] j = 4 -> HSL(170, Hundredths(100), Hundredths(50))
          [] j = 5 -> HSL(180, Hundredths(100), Hundredths(50))]

from_names ==
    [j \in 0..4 |-> IF j = 3 THEN "Guangdong" ELSE "Beijing"]

to_names ==
    [j \in 0..4 |->
        CASE j = 0 -> "Guangxi"
          [] j = 1 -> "Guangdong"
          [] j = 2 -> "Jilin"
          [] j = 3 -> "Xinjiang"
          [] j = 4 -> "Xinjiang"]

Routes == 0..4

\* only the from vector is unwrapped
lookups_ok_from_only(table) ==
    \A j \in Routes : from_names[j] \in table

\* CITIES.get(name).unwrap() succeeds for every name of both vectors
lookups_ok(table) ==
    \A j \in Routes : from_names[j] \in table /\ to_names[j] \in table

request_animation_frame == <<Op("requestAnimationFrame", <<>>, None)>>

Init ==
    /\ st = "new"
    /\ dom \in {"ok", "no_canvas", "no_context"}
    /\ cities \in SUBSET CityNames
    /\ overflow_checks \in BOOLEAN
    /\ i = <<0, 0>>
    /\ pending = 0
    /\ frames = 0
    /\ calls = <<>>
    /\ ops = <<>>
    /\ hist = [r \in 0..99 |-> <<>>]
    /\ prior = <<>>

start ==
    /\ st = "new"
    /\ IF dom = "ok" /\ lookups_ok(cities)
       THEN /\ st' = "running"
            /\ pending' = pending + 1
       ELSE /\ st' = "aborted"
            /\ pending' = pending
    /\ i' = <<0, 0>>
    /\ UNCHANGED <<dom, cities, overflow_checks, frames, calls, ops, hist, prior>>

RECURSIVE Concat(_, _)
Concat(seqs, n) == IF n = 0 THEN <<>> ELSE Concat(seqs, n - 1) \o seqs[n].ops

Min(S) == CHOOSE m \in S : \A k \in S : m <= k

\* the argument of route j: ((i + j * 20) % 100) as f32 / 100.0
route_percent(counter, j) == Hundredths(u32_rem(u32_add(counter, j * 20).value, 100))

\* the routes the loop reaches before an overflow panic, if any
routes_reached(counter) ==
    LET panics == {j \in Routes : overflow_checks /\ u32_add(counter, j * 20).overflow}
    IN  IF panics = {} THEN 5 ELSE Min(panics)

\* the calls the loop makes: each result is dropped, so an Err of one route
\* does not end the loop; only a panic does
loop_calls(counter, fails) ==
    [k \in 1..routes_reached(counter) |->
        draw_air_line(CITIES[from_names[k - 1]], CITIES[to_names[k - 1]],
                      color[k - 1],
                      get_curveness(CITIES[from_names[k - 1]], CITIES[to_names[k - 1]]),
                      route_percent(counter, k - 1),
                      (k - 1) \notin fails)]

percents_of(cs) == [k \in 1..Len(cs) |-> cs[k].percent]

clear_rect == <<Op("clearRect", <<0, 0, 1000, 1000>>, None)>>

\* one run of the frame callback; fails: the routes whose radial gradient throws
Frame(fails) ==
    /\ st = "running"
    /\ pending > 0
    /\ frames < MaxFrames
    /\ IF overflow_checks /\ u32_add(i, 1).overflow
       THEN /\ i' = i
            /\ calls' = <<>>
       ELSE /\ i' = u32_add(i, 1).value
            /\ calls' = loop_calls(i', fails)
    /\ st' = IF Len(calls') = 5 THEN "running" ELSE "trapped"
    /\ ops' = clear_rect \o Concat(calls', Len(calls'))
                         \o (IF st' = "running" THEN request_animation_frame ELSE <<>>)
    /\ pending' = IF st' = "running" THEN pending - 1 + 1 ELSE pending - 1
    /\ frames' = frames + 1
    /\ prior' = hist[frames' % 100]
    /\ hist' = [hist EXCEPT ![frames' % 100] = percents_of(calls')]
    /\ UNCHANGED <<dom, cities, overflow_checks>>

Next ==
    \/ start
    \/ \E fails \in SUBSET Routes : Frame(fails)

Spec == Init /\ [][Next]_vars

\* ------------------------------------------- a session close to 2^32 frames

\* the driver between two frames, LateStart frames before the counter wraps.
\* Between frames the closure's only changing state is the counter, and a run
\* from start reaches every counter value by that many callbacks.
InitLate ==
    /\ st = "running"
    /\ dom = "ok"
    /\ cities = CityNames
    /\ overflow_checks \in BOOLEAN
    /\ i = <<Limb - 1, Limb - LateStart>>
    /\ pending = 1
    /\ frames = 0
    /\ calls = <<>>
    /\ ops = <<>>
    /\ hist = [r \in 0..99 |-> <<>>]
    /\ prior = <<>>

NextLate == \E fails \in SUBSET Routes : Frame(fails)

SpecLate == InitLate /\ [][NextLate]_vars

\* ------------------------------------- draw_air_line called on its own

Points == {CITIES[name] : name \in CityNames}

Percents == {Hundredths(k) : k \in (0 - PctBelow)..PctAbove}

InitLine ==
    /\ st = "new"
    /\ dom = "ok"
    /\ cities = CityNames
    /\ overflow_checks = FALSE
    /\ i = <<0, 0>>
    /\ pending = 0
    /\ frames = 0
    /\ calls = <<>>
    /\ ops = <<>>
    /\ hist = [r \in 0..99 |-> <<>>]
    /\ prior = <<>>

\* one call of the exported function
CallDrawAirLine(from, to, col, curveness, percent, gradientOk) ==
    /\ calls' = <<draw_air_line(from, to, col, curveness, percent, gradientOk)>>
    /\ ops' = calls'[1].ops
    /\ UNCHANGED <<st, dom, cities, overflow_checks, i, pending, frames, hist, prior>>

NextLine ==
    /\ calls = <<>>
    /\ \E from \in Points, to \in Points, curveness \in {Hundredths(40), 0 - Hundredths(40)},
          percent \in Percents, gradientOk \in BOOLEAN :
           CallDrawAirLine(from, to, color[1], curveness, percent, gradientOk)

SpecLine == InitLine /\ [][NextLine]_vars

\* ----------------------------------------------------------------- claims

InUnit(x) == 0 <= x /\ x <= Unit

\* a percent in [0, 1)
Looping(percent) == 0 <= percent /\ percent < Unit

CallIndex == 1..Len(calls)

\* C1: for every percent in [0,1) given to draw_air_line, headPhase,
\* curvePhase and holaPhase each lie in [0,1].
C1_PhasesInRange ==
    \A k \in CallIndex :
        Looping(calls[k].percent) =>
            /\ InUnit(calls[k].percent_head)
            /\ InUnit(calls[k].percent_curve)
            /\ InUnit(calls[k].percent_hola)

\* a call at percent 0.99: all three phases are positive
C1_Witness ==
    /\ calls # <<>>
    /\ calls[1].percent = Hundredths(99)
    /\ calls[1].percent_head > 0
    /\ calls[1].percent_curve > 0
    /\ calls[1].percent_hola > 0

\* C2: headPhase is 0 at percent 0, 1 at percent 0.5 and above, and
\* percent / 0.5 in between.
C2_HeadPhase ==
    \A k \in CallIndex :
        LET percent == calls[k].percent
            head == calls[k].percent_head
        IN  /\ percent = 0 => head = 0
            /\ percent = Hundredths(50) => head = Unit
            /\ percent > Hundredths(50) => head = Unit
            /\ (0 < percent /\ percent < Hundredths(50)) => head = 2 * percent

\* a call at percent 0.4, where the head is still moving
C2_Witness ==
    /\ calls # <<>>
    /\ calls[1].percent = Hundredths(40)
    /\ calls[1].percent_head = Hundredths(80)

\* C3: for every fraction t >= 1.0, draw_part_of_curve_path takes the early
\* return, skips the interpolation and returns (controlPoint, to).
C3_EarlyReturn ==
    \A k \in CallIndex :
        calls[k].percent_head >= Unit =>
            /\ calls[k].part.path = "direct"
            /\ calls[k].part.q0 = get_control_position(calls[k].from, calls[k].to, calls[k].curveness)
            /\ calls[k].part.b = calls[k].to

\* C4: the percents drawn in a frame equal the percents drawn 100 frames
\* earlier, for every frame the driver reaches.
C4_Periodic ==
    (frames > 100 /\ prior # <<>>) => percents_of(calls) = prior

\* some name of the from or to vector is absent from the table
LookupMiss ==
    \E j \in Routes : from_names[j] \notin cities \/ to_names[j] \notin cities

\* C5: when a city name of a route is absent from the lookup table, start
\* aborts: no frame callback is ever registered and nothing is ever drawn.
C5_LookupMissAborts ==
    LookupMiss =>
        /\ st \in {"new", "aborted"}
        /\ pending = 0
        /\ frames = 0
        /\ calls = <<>>
        /\ ops = <<>>

\* start has run on a page with a canvas and an empty table, and has aborted
C5_Witness ==
    /\ st = "aborted"
    /\ dom = "ok"
    /\ cities = {}

\* C6: when draw_air_line fails for a route, the callback still calls it for
\* every later route and still requests the next frame.
C6_FailureIsolated ==
    \A k \in CallIndex :
        ~calls[k].ok =>
            /\ Len(calls) = 5
            /\ ops[Len(ops)].op = "requestAnimationFrame"
            /\ pending = 1
            /\ st = "running"

\* C7: every frame callback issues one clearRect first, then draw_air_line
\* for routes 0..4 in order once each, then one requestAnimationFrame, and
\* never more than one callback is pending.
C7_FrameShape ==
    frames > 0 =>
        LET logs == SelectSeq(ops, LAMBDA o : o.op = "console.log")
        IN  /\ ops[1].op = "clearRect"
            /\ Len(SelectSeq(ops, LAMBDA o : o.op = "clearRect")) = 1
            /\ Len(logs) = 5
            /\ \A j \in Routes :
                  logs[j + 1].args = << CITIES[from_names[j]].x, CITIES[from_names[j]].y,
                                        CITIES[to_names[j]].x, CITIES[to_names[j]].y >>
            /\ Len(calls) = 5
            /\ ops[Len(ops)].op = "requestAnimationFrame"
            /\ Len(SelectSeq(ops, LAMBDA o : o.op = "requestAnimationFrame")) = 1
            /\ pending = 1

\* the fills and strokes of a call, in the order issued
Paints(call) ==
    LET painted == SelectSeq(call.ops, LAMBDA o : o.op \in {"fillRect", "fill", "stroke"})
    IN  [n \in 1..Len(painted) |-> painted[n].op]

\* the position of the first op of that name in a call (0 when absent)
IndexOf(call, name) ==
    LET at == {n \in 1..Len(call.ops) : call.ops[n].op = name}
    IN  IF at = {} THEN 0 ELSE CHOOSE n \in at : \A m \in at : n <= m

\* C8: a call that does not fail issues the afterglow fill, then the head
\* disc, then the tail if and only if headPhase > 0; the tail runs from
\* `from` through nearPoint to headPoint under a linear gradient with stops
\* curvePhase -> transparent and 1.0 -> colour; for percent in [0,1) the
\* tail is omitted exactly when percent = 0.
C8_TailIffHeadMoved ==
    \A k \in CallIndex :
        LET c == calls[k]
            m == IndexOf(c, "moveTo")
        IN  c.ok =>
            /\ Paints(c) = IF c.percent_head > 0
                           THEN <<"fillRect", "fill", "stroke">>
                           ELSE <<"fillRect", "fill">>
            /\ c.percent_head > 0 =>
                  /\ m > IndexOf(c, "fill")
                  /\ Len(c.ops) = m + 7
                  /\ c.ops[m].args = <<c.from.x, c.from.y>>
                  /\ c.ops[m + 1].op = "quadraticCurveTo"
                  /\ c.ops[m + 1].args = <<c.part.q0.x, c.part.q0.y, c.part.b.x, c.part.b.y>>
                  /\ c.ops[m + 2].op = "createLinearGradient"
                  /\ c.ops[m + 3].op = "addColorStop"
                  /\ c.ops[m + 3].args = <<c.percent_curve>>
                  /\ c.ops[m + 3].style.kind = "transparent"
                  /\ c.ops[m + 4].op = "addColorStop"
                  /\ c.ops[m + 4].args = <<Unit>>
                  /\ c.ops[m + 4].style.kind = "hsl"
                  /\ c.ops[m + 7].op = "stroke"
            /\ c.percent_head = 0 => m = 0
            /\ Looping(c.percent) => (m = 0 <=> c.percent = 0)

\* a call at percent 0.4 that does not fail: the tail is stroked, with its
\* transparent stop past the start of the chord
C8_Witness ==
    /\ calls # <<>>
    /\ calls[1].ok
    /\ calls[1].percent = Hundredths(40)
    /\ calls[1].percent_curve > 0
    /\ ops[Len(ops)].op = "stroke"

\* C9: draw_hola fills the bounding square of the circle of radius
\* r = 20 * holaPhase around the head point: top-left (x - r, y - r), width
\* and height 2r.
C9_BoundingSquare ==
    \A k \in CallIndex :
        LET c == calls[k]
            r == (20 * PosScale * c.percent_hola) \div Unit
            n == IndexOf(c, "fillRect")
        IN  c.ok =>
            /\ n > 0
            /\ c.ops[n].args = <<c.part.b.x - r, c.part.b.y - r, 2 * r, 2 * r>>

\* C10: for percent in [0,1), holaPhase is 0 up to percent 0.5, is positive
\* only when headPhase is 1, and does not decrease as percent grows.
C10_HolaAfterArrival ==
    \A k \in CallIndex :
        LET c == calls[k]
        IN  Looping(c.percent) =>
            /\ c.percent <= Hundredths(50) => c.percent_hola = 0
            /\ c.percent_hola > 0 => c.percent_head = Unit
            /\ \A later \in Percents :
                  (Looping(later) /\ c.percent <= later) =>
                      c.percent_hola <= percent_hola_of(later)

\* a call at percent 0.75: the head has arrived and the afterglow is half grown
C10_Witness ==
    /\ calls # <<>>
    /\ calls[1].percent = Hundredths(75)
    /\ calls[1].percent_hola = Hundredths(50)
    /\ calls[1].percent_head = Unit
====
